---- MODULE Spec2Model ----
(***************************************************************************)
(* Monthly MYGA illustration engine (dac_myga_intro.engine) and CARVM      *)
(* reverse-induction reserve (dac_myga_intro.carvm).                       *)
(*                                                                         *)
(* Number representation.  The program computes in binary floating point.  *)
(* Here money is a whole number of dollars and every rate, percentage and  *)
(* factor is a whole number of thousandths (0.07 is 70).  A product of a   *)
(* money amount and a rate is rounded down to a whole dollar, a root or a  *)
(* quotient of rates is rounded down to a thousandth.  Rounding is         *)
(* monotone, as it is in floating point.                                   *)
(***************************************************************************)
EXTENDS Integers, Sequences, FiniteSets, TLC

VARIABLES
    catalog,                      \* the product spec returned by catalog.get
    inputs,                       \* IllustrationInputs of the run
    pc,                           \* "run" | "done" | "error" | "idle"
    pm,                           \* loop variable of the monthly loop
    av,                           \* account value carried forward
    gf_state,                     \* GuaranteeFundState carried forward
    wd_state,                     \* WithdrawalState carried forward
    prior_year_interest,
    current_year_interest_accum,
    rows,                         \* the monthly rows appended so far
    raised,                       \* the exception that left run_illustration
    mva_call,                     \* arguments and outcome of the last MVA call
    rv                            \* state of the reserve engine

vars == << catalog, inputs, pc, pm, av, gf_state, wd_state, prior_year_interest,
           current_year_interest_accum, rows, raised, mva_call, rv >>

illVars == << catalog, inputs, pc, pm, av, gf_state, wd_state, prior_year_interest,
              current_year_interest_accum, rows, raised, mva_call >>

-----------------------------------------------------------------------------
(* Fixed-point arithmetic *)

\* one, as a rate
S == 10 * 100

Max2(a, b) == IF a >= b THEN a ELSE b
Min2(a, b) == IF a <= b THEN a ELSE b

\* money * rate
MulRate(a, r) == (a * r) \div S

\* rate * rate
MulFix(a, b) == (a * b) \div S

\* rate / rate
DivFix(a, b) == (a * S) \div b

\* x ** (1/k) for k = 2 and k = 3, x > 0: the root lies between x and one
SqrtFix(x) == CHOOSE c \in Min2(x, S)..Max2(x, S) :
                  c * c <= x * S /\ (c + 1) * (c + 1) > x * S
CbrtFix(x) == CHOOSE c \in Min2(x, S)..Max2(x, S) :
                  c * c * c <= x * S * S /\ (c + 1) * (c + 1) * (c + 1) > x * S * S

\* x ** (1.0 / 12.0), tabulated once for 0 <= x <= 2
Root12Table == [x \in 0..(2 * S) |-> IF x = 0 THEN 0 ELSE SqrtFix(SqrtFix(CbrtFix(x)))]
Root12(x) == Root12Table[x]

\* b ** n for a whole n >= 0
RECURSIVE PowFix(_, _)
PowFix(b, n) == IF n = 0 THEN S ELSE MulFix(PowFix(b, n - 1), b)

\* Optional[...] values: None is <<>>, a value v is <<v>>
None == << >>
Some(v) == << v >>
IsNone(o) == o = << >>
Val(o) == o[1]

-----------------------------------------------------------------------------
(* engine/av.py, engine/guarantee_funds.py *)

monthly_rate_from_annual(r_annual) == Root12(S + r_annual) - S

\* mutant: the annual rate credited every month
roll_forward_annual_rate(av_bop, withdrawal, penalty, annual_rate) ==
    LET av_after_wd == Max2(0, av_bop - Max2(0, withdrawal) - Max2(0, penalty))
        interest == MulRate(av_after_wd, annual_rate)
    IN  [av_after_wd |-> av_after_wd, interest_credit |-> interest,
         av_eop |-> av_after_wd + interest]

\* mutant: the penalty is not taken out of the account value
roll_forward_without_penalty(av_bop, withdrawal, penalty, annual_rate) ==
    LET av_after_wd == Max2(0, av_bop - Max2(0, withdrawal))
        interest == MulRate(av_after_wd, monthly_rate_from_annual(annual_rate))
    IN  [av_after_wd |-> av_after_wd, interest_credit |-> interest,
         av_eop |-> av_after_wd + interest]

roll_forward_account_value(av_bop, withdrawal, penalty, annual_rate) ==
    LET wd == Max2(0, withdrawal)
        pen == Max2(0, penalty)
        av_after_wd == Max2(0, av_bop - wd - pen)
        r_m == monthly_rate_from_annual(annual_rate)
        interest == MulRate(av_after_wd, r_m)
        av_eop_raw == av_after_wd + interest
    IN  [av_after_wd |-> av_after_wd, interest_credit |-> interest, av_eop |-> av_eop_raw]

mfv_annual_rate_for_policy_year(policy_year, term_years, initial_rate, min_guaranteed_rate) ==
    IF policy_year <= term_years THEN initial_rate ELSE min_guaranteed_rate

pfv_annual_rate_for_policy_year(policy_year, params) ==
    IF policy_year <= params.rate_years THEN params.rate_annual
    ELSE params.rate_after_years_annual

initialize_guarantee_funds(premium, mfv_params, pfv_params) ==
    [mfv |-> MulRate(premium, mfv_params.base_pct_of_premium),
     pfv |-> MulRate(premium, pfv_params.base_pct_of_premium)]

\* mutant: the balances are not floored at zero
apply_surrender_unfloored(state, surrender_amount) ==
    [mfv |-> state.mfv - Max2(0, surrender_amount),
     pfv |-> state.pfv - Max2(0, surrender_amount)]

\* mutant: only the MFV track is reduced by the withdrawal
apply_surrender_mfv_only(state, surrender_amount) ==
    [mfv |-> Max2(0, state.mfv - Max2(0, surrender_amount)), pfv |-> state.pfv]

apply_surrender_to_guarantee_funds(state, surrender_amount) ==
    LET wd == Max2(0, surrender_amount)
    IN  [mfv |-> Max2(0, state.mfv - wd), pfv |-> Max2(0, state.pfv - wd)]

credit_guarantee_funds_monthly(state, policy_year, term_years, initial_rate, min_guaranteed_rate, pfv_params) ==
    LET mfv_r_m == monthly_rate_from_annual(
                       mfv_annual_rate_for_policy_year(policy_year, term_years,
                                                       initial_rate, min_guaranteed_rate))
        pfv_r_m == monthly_rate_from_annual(
                       pfv_annual_rate_for_policy_year(policy_year, pfv_params))
    IN  [mfv |-> MulRate(state.mfv, S + mfv_r_m), pfv |-> MulRate(state.pfv, S + pfv_r_m)]

-----------------------------------------------------------------------------
(* engine/mva.py *)

\* the outcome of a call: a returned value or a raised exception
Ret(v) == [raised |-> "", value |-> v]
Raise(e) == [raised |-> e, value |-> 0]

\* mutant: the rates are validated before the months remaining are looked at
compute_mva_factor_rates_first(x, y, n_months_remaining) ==
    IF S + x <= 0 \/ S + y <= 0 THEN Raise("ValueError")
    ELSE IF n_months_remaining <= 0 THEN Ret(0)
    ELSE Ret(PowFix(Root12(DivFix(S + x, S + y)), n_months_remaining) - S)

\* mutant: invalid rates give a factor of 0 instead of an error
compute_mva_factor_swallows(x, y, n_months_remaining) ==
    IF n_months_remaining <= 0 \/ S + x <= 0 \/ S + y <= 0 THEN Ret(0)
    ELSE Ret(PowFix(Root12(DivFix(S + x, S + y)), n_months_remaining) - S)

compute_mva_factor(x, y, n_months_remaining) ==
    LET n == n_months_remaining
        one_plus_x == S + x
        one_plus_y == S + y
    IN  IF n <= 0 THEN Ret(0)
        ELSE IF one_plus_x <= 0 \/ one_plus_y <= 0 THEN Raise("ValueError")
        ELSE Ret(PowFix(Root12(DivFix(one_plus_x, one_plus_y)), n) - S)

calculate_mva_factor(mva_inputs) ==
    compute_mva_factor(mva_inputs.x_initial_index_rate,
                       mva_inputs.y_current_index_rate,
                       mva_inputs.n_months_remaining)

-----------------------------------------------------------------------------
(* engine/catalog.py *)

\* mutant: a year the schedule lacks takes the after-term default, a year it
\* holds takes its entry, within the term or not
surrender_charge_by_schedule_only(policy_year) ==
    LET sched == catalog.features.surrender_charge.schedule
    IN  IF policy_year \in DOMAIN sched THEN Ret(sched[policy_year])
        ELSE Ret(catalog.features.surrender_charge.after_term_default_charge_pct)

surrender_charge(policy_year) ==
    LET sched == catalog.features.surrender_charge.schedule
    IN  IF policy_year <= catalog.term_years
        THEN IF policy_year \notin DOMAIN sched
             THEN Raise("ProductSpecValidationError")
             ELSE Ret(sched[policy_year])
        ELSE Ret(catalog.features.surrender_charge.after_term_default_charge_pct)

-----------------------------------------------------------------------------
(* engine/withdrawals.py *)

init_withdrawal_state ==
    [policy_year |-> 1, month_in_policy_year |-> 1, free_limit_ytd |-> 0,
     free_used_ytd |-> 0, free_remaining_ytd |-> 0]

compute_free_limit_for_year(policy_year, year_bop_av, prior_policy_year_interest) ==
    LET fpw == catalog.features.free_partial_withdrawal
    IN  IF ~fpw.enabled \/ policy_year <= 1 THEN 0
        ELSE IF fpw.method = "pct_of_boy_account_value"
             THEN Max2(0, MulRate(year_bop_av, fpw.params.pct))
        ELSE IF fpw.method = "prior_year_interest_credited"
             THEN Max2(0, prior_policy_year_interest)
        ELSE 0

\* inputs.withdrawal_value is held in thousandths, whatever the method reads it as
compute_user_withdrawal_amount(policy_year, year_bop_av, prior_policy_year_interest) ==
    IF policy_year <= 1 THEN 0
    ELSE IF inputs.withdrawal_method = "pct_of_boy_av"
         THEN Max2(0, MulRate(year_bop_av, inputs.withdrawal_value))
    ELSE IF inputs.withdrawal_method = "fixed_amount"
         THEN Max2(0, inputs.withdrawal_value \div S)
    ELSE IF inputs.withdrawal_method = "prior_year_interest_credited"
         THEN Max2(0, prior_policy_year_interest)
    ELSE 0

\* mutant: the carry branch loses the remaining budget
refresh_year_state_drops_budget(state, policy_year, month_in_policy_year, year_bop_av, prior_policy_year_interest) ==
    IF policy_year # state.policy_year /\ month_in_policy_year = 1
    THEN LET free_limit == compute_free_limit_for_year(policy_year, year_bop_av,
                                                       prior_policy_year_interest)
         IN  [policy_year |-> policy_year, month_in_policy_year |-> month_in_policy_year,
              free_limit_ytd |-> free_limit, free_used_ytd |-> 0,
              free_remaining_ytd |-> free_limit]
    ELSE IF month_in_policy_year # state.month_in_policy_year
    THEN [policy_year |-> state.policy_year, month_in_policy_year |-> month_in_policy_year,
          free_limit_ytd |-> state.free_limit_ytd, free_used_ytd |-> state.free_used_ytd,
          free_remaining_ytd |-> 0]
    ELSE state

\* mutant: what is left of the previous year's budget is added to the new limit
refresh_year_state_carries_over(state, policy_year, month_in_policy_year, year_bop_av, prior_policy_year_interest) ==
    IF policy_year # state.policy_year /\ month_in_policy_year = 1
    THEN LET free_limit == compute_free_limit_for_year(policy_year, year_bop_av,
                               prior_policy_year_interest) + state.free_remaining_ytd
         IN  [policy_year |-> policy_year, month_in_policy_year |-> month_in_policy_year,
              free_limit_ytd |-> free_limit, free_used_ytd |-> 0,
              free_remaining_ytd |-> free_limit]
    ELSE IF month_in_policy_year # state.month_in_policy_year
    THEN [policy_year |-> state.policy_year, month_in_policy_year |-> month_in_policy_year,
          free_limit_ytd |-> state.free_limit_ytd, free_used_ytd |-> state.free_used_ytd,
          free_remaining_ytd |-> state.free_remaining_ytd]
    ELSE state

\* mutant: the amount used in the previous year is kept when the year changes
refresh_year_state_keeps_used(state, policy_year, month_in_policy_year, year_bop_av, prior_policy_year_interest) ==
    IF policy_year # state.policy_year /\ month_in_policy_year = 1
    THEN LET free_limit == compute_free_limit_for_year(policy_year, year_bop_av,
                                                       prior_policy_year_interest)
         IN  [policy_year |-> policy_year, month_in_policy_year |-> month_in_policy_year,
              free_limit_ytd |-> free_limit, free_used_ytd |-> state.free_used_ytd,
              free_remaining_ytd |-> free_limit]
    ELSE IF month_in_policy_year # state.month_in_policy_year
    THEN [policy_year |-> state.policy_year, month_in_policy_year |-> month_in_policy_year,
          free_limit_ytd |-> state.free_limit_ytd, free_used_ytd |-> state.free_used_ytd,
          free_remaining_ytd |-> state.free_remaining_ytd]
    ELSE state

refresh_year_state_if_needed(state, policy_year, month_in_policy_year, year_bop_av, prior_policy_year_interest) ==
    IF policy_year # state.policy_year /\ month_in_policy_year = 1
    THEN LET free_limit == compute_free_limit_for_year(policy_year, year_bop_av,
                                                       prior_policy_year_interest)
         IN  [policy_year |-> policy_year, month_in_policy_year |-> month_in_policy_year,
              free_limit_ytd |-> free_limit, free_used_ytd |-> 0,
              free_remaining_ytd |-> free_limit]
    ELSE IF month_in_policy_year # state.month_in_policy_year
    THEN [policy_year |-> state.policy_year, month_in_policy_year |-> month_in_policy_year,
          free_limit_ytd |-> state.free_limit_ytd, free_used_ytd |-> state.free_used_ytd,
          free_remaining_ytd |-> state.free_remaining_ytd]
    ELSE state

\* mutant: the request is not capped by the account value
clamp_overdraws(wd_req, av_bop) == Max2(0, wd_req)

\* line 195: the request clamped into [0, av_bop]
clamp_withdrawal(wd_req, av_bop) == Min2(Max2(0, wd_req), Max2(0, av_bop))

\* mutant: a withdrawal is taken in every month from policy year 2 on
withdrawal_allowed_every_month(policy_year, month_in_policy_year) == policy_year >= 2

\* line 171: withdrawals are taken at month 1 of each policy year from year 2 on
withdrawal_allowed(policy_year, month_in_policy_year) ==
    month_in_policy_year = 1 /\ policy_year >= 2

\* mutant: the whole excess is subject to the MVA, the charge not taken off first
mva_amount_subject_gross(excess_amount, surrender_charge_amount) == excess_amount

\* line 213: the amount subject to the MVA
mva_amount_subject_of(excess_amount, surrender_charge_amount) ==
    Max2(0, excess_amount - surrender_charge_amount)

\* lines 170-242, after the budget state was refreshed to `state`
withdrawal_after_refresh(state0, state, policy_year, month_in_policy_year, av_bop, year_bop_av, prior_policy_year_interest, mva_factor) ==
    IF ~withdrawal_allowed(policy_year, month_in_policy_year)
    THEN [raised |-> "", state |-> state,
          res |-> [withdrawal_amount |-> 0,
                   free_limit_ytd |-> state.free_limit_ytd,
                   free_used_this_txn |-> 0,
                   free_used_ytd_eop |-> state.free_used_ytd,
                   free_remaining_eop |-> state.free_remaining_ytd,
                   excess_amount |-> 0,
                   surrender_charge_pct |-> 0,
                   surrender_charge_amount |-> 0,
                   mva_factor |-> mva_factor,
                   mva_amount_subject |-> 0,
                   mva_amount |-> 0,
                   penalty_total |-> 0]]
    ELSE
    LET wd_req == compute_user_withdrawal_amount(policy_year, year_bop_av,
                                                 prior_policy_year_interest)
        wd == clamp_withdrawal(wd_req, av_bop)
        free_used_this_txn == Min2(wd, Max2(0, state.free_remaining_ytd))
        excess_amount == Max2(0, wd - free_used_this_txn)
        free_used_ytd_eop == state.free_used_ytd + free_used_this_txn
        free_remaining_eop == Max2(0, state.free_limit_ytd - free_used_ytd_eop)
        sc == surrender_charge(policy_year)
        surrender_charge_pct == sc.value
        surrender_charge_amount == MulRate(excess_amount, surrender_charge_pct)
        mva_amount_subject == mva_amount_subject_of(excess_amount, surrender_charge_amount)
        mva_amount == MulRate(mva_amount_subject, mva_factor)
        penalty_total == surrender_charge_amount + mva_amount
    IN  IF sc.raised # ""
        THEN [raised |-> sc.raised, state |-> state0, res |-> << >>]
        ELSE [raised |-> "",
              state |-> [policy_year |-> policy_year,
                         month_in_policy_year |-> month_in_policy_year,
                         free_limit_ytd |-> state.free_limit_ytd,
                         free_used_ytd |-> free_used_ytd_eop,
                         free_remaining_ytd |-> free_remaining_eop],
              res |-> [withdrawal_amount |-> wd,
                       free_limit_ytd |-> state.free_limit_ytd,
                       free_used_this_txn |-> free_used_this_txn,
                       free_used_ytd_eop |-> free_used_ytd_eop,
                       free_remaining_eop |-> free_remaining_eop,
                       excess_amount |-> excess_amount,
                       surrender_charge_pct |-> surrender_charge_pct,
                       surrender_charge_amount |-> surrender_charge_amount,
                       mva_factor |-> mva_factor,
                       mva_amount_subject |-> mva_amount_subject,
                       mva_amount |-> mva_amount,
                       penalty_total |-> penalty_total]]

\* the (state, result) pair of a call, or the exception it raised
calc_withdrawal_for_month(state0, policy_year, month_in_policy_year, av_bop, year_bop_av, prior_policy_year_interest, mva_factor) ==
    withdrawal_after_refresh(state0,
        refresh_year_state_if_needed(state0, policy_year, month_in_policy_year,
                                     year_bop_av, prior_policy_year_interest),
        policy_year, month_in_policy_year, av_bop, year_bop_av,
        prior_policy_year_interest, mva_factor)

-----------------------------------------------------------------------------
(* CSV calculator, in the form run_illustration calls it *)

calculate_cash_surrender_value(av_eop, surrender_amount, free_remaining_at_calc, surrender_charge_pct, surrender_charge_pct_override, mva_factor, gf_mfv_eop, gf_pfv_eop) ==
    LET amount_subject == Max2(0, surrender_amount - free_remaining_at_calc)
        pct_used == IF IsNone(surrender_charge_pct_override) THEN surrender_charge_pct
                    ELSE Val(surrender_charge_pct_override)
        sc_amt_used == MulRate(amount_subject, pct_used)
        amount_subject_to_mva == amount_subject - sc_amt_used
        mva_amount_used == MulRate(amount_subject_to_mva, mva_factor)
        base == Max2(0, surrender_amount - sc_amt_used + mva_amount_used)
        nff_floor_used == Max2(gf_mfv_eop, gf_pfv_eop)
    IN  [csv |-> Max2(base, nff_floor_used),
         csv_before_floors |-> base,
         nff_floor_used |-> nff_floor_used,
         amount_subject_to_surrender_charge |-> amount_subject,
         surrender_charge_pct_used |-> pct_used,
         surrender_charge_amount_used |-> sc_amt_used,
         amount_subject_to_mva |-> amount_subject_to_mva,
         mva_factor_used |-> mva_factor,
         mva_amount_used |-> mva_amount_used]

-----------------------------------------------------------------------------
(* engine/annuity_benefits.py; the payout tables are data of the deployment,  *)
(* a factor is held in cents of monthly income per $1000 applied              *)

installment_df == [y \in 1..30 |-> ((100 * S) \div (12 * y)) + 40]

life_ages == << 50, 60, 70, 80 >>
life_male_per_1000 == << 420, 510, 660, 930 >>
life_female_per_1000 == << 390, 470, 600, 840 >>

InstallmentTable_monthly_per_1000(years) ==
    IF years < 1 \/ years > 30 THEN Raise("ValueError")
    ELSE IF years \notin DOMAIN installment_df THEN Raise("ValueError")
    ELSE Ret(installment_df[years])

LifeIncomeTable_monthly_per_1000(age, gender) ==
    LET y == IF gender = "M" THEN life_male_per_1000 ELSE life_female_per_1000
        x == life_ages
        n == Len(x)
    IN  IF age < 50 THEN 0
        ELSE IF age <= x[1] THEN y[1]
        ELSE IF age >= x[n] THEN y[n]
        ELSE LET idx == CHOOSE i \in 2..n : x[i] >= age /\ x[i - 1] < age
             IN  y[idx - 1] + (((age - x[idx - 1]) * (y[idx] - y[idx - 1]))
                                  \div (x[idx] - x[idx - 1]))

\* (amt / 1000.0) * f
PerThousand(amt, f) == (amt * f) \div (100 * S)

annuity_monthly_payment(amount_applied, option, years, attained_age, gender) ==
    LET amt == Max2(0, amount_applied)
    IN  IF option = "installment_certain"
        THEN IF IsNone(years) THEN Raise("ValueError")
             ELSE LET f == InstallmentTable_monthly_per_1000(Val(years))
                  IN  IF f.raised # "" THEN f ELSE Ret(PerThousand(amt, f.value))
        ELSE IF option = "single_life_no_guarantee"
        THEN IF IsNone(attained_age) \/ IsNone(gender) THEN Raise("ValueError")
             ELSE Ret(PerThousand(amt, LifeIncomeTable_monthly_per_1000(Val(attained_age),
                                                                        Val(gender))))
        ELSE Raise("ValueError")

-----------------------------------------------------------------------------
(* engine/illustration.py *)

annual_rate_for_year(yr, term_years, initial_rate, renewal_rate, minimum_guaranteed_rate) ==
    IF yr <= term_years THEN initial_rate
    ELSE Max2(renewal_rate, minimum_guaranteed_rate)

term_years == catalog.term_years

projection_years ==
    IF IsNone(inputs.projection_years) \/ Val(inputs.projection_years) <= 0
    THEN term_years
    ELSE Val(inputs.projection_years)

total_months == projection_years * 12
term_months == term_years * 12

mfv_params == [base_pct_of_premium |-> catalog.features.guarantee_funds.mfv.base_pct_of_premium]
pfv_params == catalog.features.guarantee_funds.pfv

\* mutant: the months elapsed are passed as the months remaining
months_elapsed(m) ==
    IF ~IsNone(inputs.mva_months_remaining_override)
    THEN Val(inputs.mva_months_remaining_override)
    ELSE Max2(0, m)

\* lines 166-169: the months remaining to the end of the term, or the override
months_remaining(m) ==
    IF ~IsNone(inputs.mva_months_remaining_override)
    THEN Val(inputs.mva_months_remaining_override)
    ELSE Max2(0, term_months - m)

\* step (0) of the loop body: the MVA factor of month m, with the call made (if any)
MvaStep(m) ==
    LET mva_enabled == catalog.features.mva.enabled
        have_mva_rates == ~IsNone(inputs.mva_initial_index_rate)
                          /\ ~IsNone(inputs.mva_current_index_rate)
    IN  IF mva_enabled /\ have_mva_rates
        THEN LET n_remaining == months_remaining(m)
                 args == [x_initial_index_rate |-> Val(inputs.mva_initial_index_rate),
                          y_current_index_rate |-> Val(inputs.mva_current_index_rate),
                          n_months_remaining |-> n_remaining]
                 out == calculate_mva_factor(args)
             IN  [called |-> TRUE, args |-> args, raised |-> out.raised,
                  mva_factor |-> out.value]
        ELSE [called |-> FALSE, args |-> << >>, raised |-> "", mva_factor |-> 0]

\* mutant: the rolled-forward value is carried without the floor
floor_dropped(av_eop, gf_mfv_eop, gf_pfv_eop) == av_eop

\* the floor of the account value, lines 226-228
floor_account_value(av_eop, gf_mfv_eop, gf_pfv_eop) ==
    Max2(av_eop, Max2(gf_mfv_eop, gf_pfv_eop))

PolicyYear(m) == ((m - 1) \div 12) + 1

\* mutant: the month in the year counted from the month number itself
MonthInYear_shifted(m) == (m % 12) + 1

MonthInYear(m) == ((m - 1) % 12) + 1

AnnualRate(m) ==
    annual_rate_for_year(PolicyYear(m), term_years, inputs.initial_rate,
                         inputs.renewal_rate, catalog.features.minimum_guaranteed_rate)

\* mutant: the value before the floor is carried into the next month
carry_forward_before_floor(av_eop, av_eop_floored) == av_eop

\* line 230: the floored value is carried into the next month
carry_forward(av_eop, av_eop_floored) == av_eop_floored

\* mutant: the increase that the floor causes is counted as interest of the month
tracked_interest_with_floor(av_result, av_new) == av_new - av_result.av_after_wd

\* line 233: the interest of the month that is added to the year's total
tracked_interest(av_result, av_new) == av_result.interest_credit

\* lines 232-357: interest tracking and the row of month m
AssembleRow(m, mva, w, gf2, av_result, av_new, csv_out, ann_inst, ann_life) ==
    [raised |-> "",
     mva |-> mva,
     av |-> carry_forward(av_result.av_eop, av_new),
     gf_state |-> gf2,
     wd_state |-> w.state,
     prior_year_interest |->
         IF MonthInYear(m) = 12
         THEN current_year_interest_accum + tracked_interest(av_result, av_new)
         ELSE prior_year_interest,
     current_year_interest_accum |->
         IF MonthInYear(m) = 12 THEN 0
         ELSE current_year_interest_accum + tracked_interest(av_result, av_new),
     row |-> [meta_policy_month |-> m,
              meta_policy_year |-> PolicyYear(m),
              meta_month_in_policy_year |-> MonthInYear(m),
              meta_annual_rate |-> AnnualRate(m),
              meta_attained_age |-> inputs.issue_age + PolicyYear(m),
              meta_projection_years |-> projection_years,
              mva_enabled |-> mva.called,
              mva_factor |-> mva.mva_factor,
              wd_withdrawal_amount |-> w.res.withdrawal_amount,
              wd_free_limit_ytd |-> w.res.free_limit_ytd,
              wd_free_used_this_txn |-> w.res.free_used_this_txn,
              wd_free_used_ytd_eop |-> w.res.free_used_ytd_eop,
              wd_free_remaining_eop |-> w.res.free_remaining_eop,
              wd_excess_amount |-> w.res.excess_amount,
              wd_surrender_charge_pct |-> w.res.surrender_charge_pct,
              wd_surrender_charge_amount |-> w.res.surrender_charge_amount,
              wd_mva_factor |-> w.res.mva_factor,
              wd_mva_amount_subject |-> w.res.mva_amount_subject,
              wd_mva_amount |-> w.res.mva_amount,
              wd_penalty_total |-> w.res.penalty_total,
              av_bop |-> av,
              av_after_withdrawal_and_penalty |-> av_result.av_after_wd,
              av_interest_credit |-> av_result.interest_credit,
              av_eop_before_floor |-> av_result.av_eop,
              av_nff_floor |-> Max2(gf2.mfv, gf2.pfv),
              av_eop |-> av_new,
              gf_mfv_bop |-> gf_state.mfv,
              gf_mfv_eop |-> gf2.mfv,
              gf_pfv_bop |-> gf_state.pfv,
              gf_pfv_eop |-> gf2.pfv,
              csv_before_floors |-> csv_out.csv_before_floors,
              csv_nff_floor_used |-> csv_out.nff_floor_used,
              csv_final |-> csv_out.csv,
              csv_amount_subject_to_sc |-> csv_out.amount_subject_to_surrender_charge,
              csv_sc_pct_used |-> csv_out.surrender_charge_pct_used,
              csv_sc_amt_used |-> csv_out.surrender_charge_amount_used,
              csv_amount_subject_to_mva |-> csv_out.amount_subject_to_mva,
              csv_mva_factor_used |-> csv_out.mva_factor_used,
              csv_mva_amt_used |-> csv_out.mva_amount_used,
              ann_is_year_end |-> MonthInYear(m) = 12,
              ann_amount_applied |-> IF MonthInYear(m) = 12 THEN Some(av_new) ELSE None,
              ann_installment_monthly_payment |->
                  IF MonthInYear(m) = 12 THEN Some(ann_inst.value) ELSE None,
              ann_single_life_monthly_payment |->
                  IF MonthInYear(m) = 12 THEN Some(ann_life.value) ELSE None]]

\* lines 254-286: the annuity payments, computed at year-end months only
AfterCsv(m, mva, w, gf2, av_result, av_new, csv_out, ann_inst, ann_life) ==
    IF MonthInYear(m) = 12 /\ ann_inst.raised # ""
    THEN [raised |-> ann_inst.raised, mva |-> mva]
    ELSE IF MonthInYear(m) = 12 /\ ann_life.raised # ""
    THEN [raised |-> ann_life.raised, mva |-> mva]
    ELSE AssembleRow(m, mva, w, gf2, av_result, av_new, csv_out, ann_inst, ann_life)

\* mutant: the free budget of the year is exempted, not what is left of it
CsvStep_whole_free_limit(m, mva, w, gf2, av_new, sc_pct) ==
    calculate_cash_surrender_value(av_new, av_new, w.res.free_limit_ytd,
        sc_pct, IF m = term_months THEN Some(0) ELSE None,
        mva.mva_factor, gf2.mfv, gf2.pfv)

\* mutant: the scheduled percentage is charged in the last month of the term too
CsvStep_without_term_end_waiver(m, mva, w, gf2, av_new, sc_pct) ==
    calculate_cash_surrender_value(av_new, av_new, w.res.free_remaining_eop,
        sc_pct, None, mva.mva_factor, gf2.mfv, gf2.pfv)

\* lines 239-252: the CSV call, on the floored account value as surrender amount
CsvStep(m, mva, w, gf2, av_new, sc_pct) ==
    calculate_cash_surrender_value(av_new, av_new, w.res.free_remaining_eop,
        sc_pct, IF m = term_months THEN Some(0) ELSE None,
        mva.mva_factor, gf2.mfv, gf2.pfv)

\* lines 238-252: the CSV of the floored account value
AfterFloor(m, mva, w, gf2, av_result, av_new, sc) ==
    IF sc.raised # ""
    THEN [raised |-> sc.raised, mva |-> mva]
    ELSE AfterCsv(m, mva, w, gf2, av_result, av_new,
             CsvStep(m, mva, w, gf2, av_new, sc.value),
             annuity_monthly_payment(av_new, "installment_certain",
                 Some(inputs.installment_years), None, None),
             annuity_monthly_payment(av_new, "single_life_no_guarantee",
                 None, Some(inputs.issue_age + PolicyYear(m)), Some(inputs.gender)))

\* lines 226-230: the floored account value that is carried forward
AfterRollForward(m, mva, w, gf2, av_result) ==
    AfterFloor(m, mva, w, gf2, av_result,
               floor_account_value(av_result.av_eop, gf2.mfv, gf2.pfv),
               surrender_charge(PolicyYear(m)))

\* lines 199-224: guarantee funds and account value roll-forward
AfterWithdrawal(m, mva, w) ==
    IF w.raised # ""
    THEN [raised |-> w.raised, mva |-> mva]
    ELSE AfterRollForward(m, mva, w,
             credit_guarantee_funds_monthly(
                 apply_surrender_to_guarantee_funds(gf_state, w.res.withdrawal_amount),
                 PolicyYear(m), term_years, inputs.initial_rate,
                 catalog.features.minimum_guaranteed_rate, pfv_params),
             roll_forward_account_value(av, w.res.withdrawal_amount,
                                        w.res.penalty_total, AnnualRate(m)))

\* lines 179-197: BOP snapshots and the month's withdrawal
AfterMva(m, mva) ==
    IF mva.raised # ""
    THEN [raised |-> mva.raised, mva |-> mva]
    ELSE AfterWithdrawal(m, mva,
             calc_withdrawal_for_month(wd_state, PolicyYear(m), MonthInYear(m), av, av,
                                       prior_year_interest, mva.mva_factor))

\* one pass through the loop body for month m, from the carried state
LoopBody(m) == AfterMva(m, MvaStep(m))

-----------------------------------------------------------------------------
(* The runs explored: products and inputs *)

\* the longest projection horizon, in years
MaxProjYears == 2

TermChoices == {1, 2}

ScheduleFor(t) == [y \in 1..t |-> 90 - (10 * y)]

\* << schedule, after_term.default_charge_pct >>: a schedule that covers the term,
\* one that lacks the last year of the term, one with an entry beyond the term
ScheduleChoices(t) ==
    { << ScheduleFor(t), 0 >>,
      << [y \in 1..(t - 1) |-> 90 - (10 * y)], 5 >>,
      << [y \in 1..(t + 1) |-> 90 - (10 * y)], 5 >> }

FpwChoices ==
    { [enabled |-> TRUE, method |-> "pct_of_boy_account_value", params |-> [pct |-> 100]],
      [enabled |-> TRUE, method |-> "prior_year_interest_credited", params |-> [pct |-> 0]],
      [enabled |-> FALSE, method |-> "pct_of_boy_account_value", params |-> [pct |-> 100]] }

GfChoices ==
    { [mfv |-> [base_pct_of_premium |-> 875],
       pfv |-> [base_pct_of_premium |-> 907, rate_annual |-> 19, rate_years |-> 10,
                rate_after_years_annual |-> 0]],
      [mfv |-> [base_pct_of_premium |-> 0],
       pfv |-> [base_pct_of_premium |-> S, rate_annual |-> 60, rate_years |-> 1,
                rate_after_years_annual |-> 0]] }

\* << term_years, << schedule, after-term default >> >>
TermScheduleChoices ==
    UNION { { << t, sc >> : sc \in ScheduleChoices(t) } : t \in TermChoices }

Catalogs ==
    { [term_years |-> ts[1],
       features |-> [minimum_guaranteed_rate |-> 10,
                     mva |-> [enabled |-> e],
                     surrender_charge |-> [schedule |-> ts[2][1],
                                           after_term_default_charge_pct |-> ts[2][2]],
                     free_partial_withdrawal |-> fpw,
                     guarantee_funds |-> gf]] :
      ts \in TermScheduleChoices, e \in BOOLEAN, fpw \in FpwChoices, gf \in GfChoices }

\* << premium, initial_rate, renewal_rate >>
EconChoices == { << 100000, 0, 0 >>, << 100000, 50, 30 >>, << 100000, -100, 0 >>,
                 << 0, 50, 30 >> }

\* << withdrawal_method, withdrawal_value in thousandths >>
WithdrawalChoices ==
    { << "pct_of_boy_av", 0 >>, << "pct_of_boy_av", 100 >>, << "pct_of_boy_av", 2 * S >>,
      << "fixed_amount", 0 >>, << "fixed_amount", 12000 * S >>, << "fixed_amount", -5 * S >>,
      << "prior_year_interest_credited", 0 >>, << "withdraw_everything", 100 >> }

\* << mva_initial_index_rate, mva_current_index_rate, mva_months_remaining_override >>
MvaChoices ==
    { << None, None, None >>,
      << Some(40), Some(50), None >>,
      << Some(40), None, None >>,
      << Some(50), Some(40), None >>,
      << Some(40), Some(50), Some(12) >>,
      << Some(0 - S), Some(50), None >>,
      << Some(40), Some(0 - (2 * S)), Some(0) >>,
      << Some(40), Some(0 - S), Some(12) >>,
      << Some(0 - S), Some(50), Some(-1) >> }

\* IllustrationInputs.projection_years when the caller leaves the field out
default_projection_years == 15

\* the projection_years field of the inputs built: the value passed, or the
\* dataclass default when the field is omitted
ProjChoices ==
    { [omitted |-> FALSE, value |-> Some(k)] : k \in 0..MaxProjYears }
    \cup { [omitted |-> TRUE, value |-> Some(default_projection_years)] }

InputChoices ==
    { [premium |-> e[1], issue_age |-> 60, gender |-> "M",
       initial_rate |-> e[2], renewal_rate |-> e[3],
       withdrawal_method |-> w[1], withdrawal_value |-> w[2],
       projection_years |-> p.value, projection_years_omitted |-> p.omitted,
       mva_initial_index_rate |-> m[1], mva_current_index_rate |-> m[2],
       mva_months_remaining_override |-> m[3],
       installment_years |-> 10] :
      e \in EconChoices, w \in WithdrawalChoices, p \in ProjChoices, m \in MvaChoices }

\* the combinations explored: a product without MVA is run with one pair of index
\* rates, a zero premium with one withdrawal request, the second guarantee-fund
\* configuration with the percentage free-withdrawal rule
Explored(c, i) ==
    /\ ~c.features.mva.enabled =>
           /\ i.mva_initial_index_rate = Some(40)
           /\ i.mva_current_index_rate = Some(50)
           /\ i.mva_months_remaining_override = None
    /\ i.premium = 0 => i.withdrawal_value = 12000 * S
    /\ c.features.guarantee_funds.mfv.base_pct_of_premium = 0 =>
           /\ c.features.free_partial_withdrawal.enabled
           /\ c.features.free_partial_withdrawal.method = "pct_of_boy_account_value"
    /\ c.features.surrender_charge.schedule # ScheduleFor(c.term_years) =>
           /\ i.premium = 100000 /\ i.initial_rate = 50
           /\ i.withdrawal_method = "fixed_amount" /\ i.withdrawal_value > 0
           /\ i.mva_months_remaining_override = None
           /\ IsNone(i.mva_initial_index_rate) \/ i.mva_initial_index_rate = Some(40)
           /\ ~IsNone(i.mva_current_index_rate) => Val(i.mva_current_index_rate) > 0
           /\ ~i.projection_years_omitted
           /\ c.features.guarantee_funds.mfv.base_pct_of_premium # 0
           /\ c.features.free_partial_withdrawal.enabled
           /\ c.features.free_partial_withdrawal.method = "pct_of_boy_account_value"
    /\ i.projection_years_omitted =>
           /\ i.premium = 100000 /\ i.initial_rate = 50
           /\ i.withdrawal_method = "fixed_amount" /\ i.withdrawal_value >= 0
           /\ i.mva_initial_index_rate = Some(40)
           /\ i.mva_current_index_rate = Some(50)
           /\ i.mva_months_remaining_override = None
           /\ c.features.guarantee_funds.mfv.base_pct_of_premium # 0
           /\ c.features.free_partial_withdrawal.enabled
           /\ c.features.free_partial_withdrawal.method = "pct_of_boy_account_value"

rvIdle == [pc |-> "idle"]

\* run_illustration up to the loop, lines 88-147
Init ==
    /\ catalog \in Catalogs
    /\ inputs \in InputChoices
    /\ Explored(catalog, inputs)
    /\ pc = "run"
    /\ pm = 1
    /\ av = inputs.premium
    /\ gf_state = initialize_guarantee_funds(inputs.premium, mfv_params, pfv_params)
    /\ wd_state = init_withdrawal_state
    /\ prior_year_interest = 0
    /\ current_year_interest_accum = 0
    /\ rows = << >>
    /\ raised = ""
    /\ mva_call = [called |-> FALSE, args |-> << >>, raised |-> "", mva_factor |-> 0]
    /\ rv = rvIdle

\* one iteration of the loop at line 149 that reaches rows.append
Month ==
    /\ pc = "run"
    /\ pm <= total_months
    /\ \E b \in {LoopBody(pm)} :
           /\ b.raised = ""
           /\ av' = b.av
           /\ gf_state' = b.gf_state
           /\ wd_state' = b.wd_state
           /\ prior_year_interest' = b.prior_year_interest
           /\ current_year_interest_accum' = b.current_year_interest_accum
           /\ rows' = Append(rows, b.row)
           /\ mva_call' = b.mva
    /\ pm' = pm + 1
    /\ UNCHANGED << catalog, inputs, pc, raised, rv >>

\* an iteration that an exception leaves: it propagates out of run_illustration
MonthRaises ==
    /\ pc = "run"
    /\ pm <= total_months
    /\ \E b \in {LoopBody(pm)} :
           /\ b.raised # ""
           /\ raised' = b.raised
           /\ mva_call' = b.mva
    /\ pc' = "error"
    /\ UNCHANGED << catalog, inputs, pm, av, gf_state, wd_state, prior_year_interest,
                    current_year_interest_accum, rows, rv >>

\* the loop is exhausted: return pd.DataFrame(rows), line 359
Return ==
    /\ pc = "run"
    /\ pm > total_months
    /\ pc' = "done"
    /\ UNCHANGED << catalog, inputs, pm, av, gf_state, wd_state, prior_year_interest,
                    current_year_interest_accum, rows, raised, mva_call, rv >>

-----------------------------------------------------------------------------
(* carvm/annual_view.py *)

\* mutant: the beginning-of-year columns are read from the year-end rows
boy_rows_at_year_end(df) == SelectSeq(df, LAMBDA r : r.meta_month_in_policy_year = 12)

\* line 24: the rows of month 1 of each policy year
boy_rows(df) == SelectSeq(df, LAMBDA r : r.meta_month_in_policy_year = 1)

\* line 25: the rows of month 12 of each policy year
eoy_rows(df) == SelectSeq(df, LAMBDA r : r.meta_month_in_policy_year = 12)

\* one merged row per year-end row of the policy year of b, columns renamed
merge_one(b, es) ==
    [i \in 1..Len(es) |->
        [Policy_Year |-> b.meta_policy_year,
         AV_BOY |-> b.av_bop,
         Attained_Age |-> b.meta_attained_age,
         WD |-> b.wd_withdrawal_amount,
         AV_EOY |-> es[i].av_eop,
         CSV_EOY |-> es[i].csv_final]]

\* line 50: boy.merge(eoy, on = "meta_policy_year", how = "inner")
RECURSIVE merge_inner(_, _)
merge_inner(boy, eoy) ==
    IF boy = << >> THEN << >>
    ELSE merge_one(Head(boy),
                   SelectSeq(eoy, LAMBDA e : e.meta_policy_year = Head(boy).meta_policy_year))
         \o merge_inner(Tail(boy), eoy)

\* line 52: sort_values("Policy Year")
RECURSIVE sort_by_policy_year(_)
sort_by_policy_year(s) ==
    IF s = << >> THEN << >>
    ELSE LET x == s[Len(s)]
             rest == sort_by_policy_year(SubSeq(s, 1, Len(s) - 1))
         IN  SelectSeq(rest, LAMBDA r : r.Policy_Year <= x.Policy_Year)
             \o << x >>
             \o SelectSeq(rest, LAMBDA r : r.Policy_Year > x.Policy_Year)

\* the annual table of a monthly table; a table without rows has no columns
build_annual_view(df) ==
    IF df = << >> THEN Raise("ValueError")
    ELSE Ret(sort_by_policy_year(merge_inner(boy_rows(df), eoy_rows(df))))

\* the annual view of the table that run_illustration returned
AnnualView ==
    /\ pc = "done"
    /\ rv = rvIdle
    /\ \E out \in {build_annual_view(rows)} :
           rv' = [pc |-> "annual", raised |-> out.raised, annual_df |-> out.value]
    /\ UNCHANGED << catalog, inputs, pc, pm, av, gf_state, wd_state, prior_year_interest,
                    current_year_interest_accum, rows, raised, mva_call >>

Next == Month \/ MonthRaises \/ Return \/ AnnualView

Spec == Init /\ [][Next]_vars

-----------------------------------------------------------------------------
(* Runs on products whose guarantee-fund configuration is out of range *)

\* guarantee-fund configurations with a negative base percentage or a negative
\* number of rate years
GfOutOfRangeChoices ==
    { [mfv |-> [base_pct_of_premium |-> 0 - 500],
       pfv |-> [base_pct_of_premium |-> 907, rate_annual |-> 19, rate_years |-> 10,
                rate_after_years_annual |-> 0]],
      [mfv |-> [base_pct_of_premium |-> 875],
       pfv |-> [base_pct_of_premium |-> 0 - 907, rate_annual |-> 19, rate_years |-> 10,
                rate_after_years_annual |-> 0]],
      [mfv |-> [base_pct_of_premium |-> 875],
       pfv |-> [base_pct_of_premium |-> 907, rate_annual |-> 60, rate_years |-> 0 - 1,
                rate_after_years_annual |-> 0]] }

CatalogsGfConfig ==
    { [term_years |-> ts[1],
       features |-> [minimum_guaranteed_rate |-> 10,
                     mva |-> [enabled |-> e],
                     surrender_charge |-> [schedule |-> ts[2][1],
                                           after_term_default_charge_pct |-> ts[2][2]],
                     free_partial_withdrawal |-> fpw,
                     guarantee_funds |-> gf]] :
      ts \in TermScheduleChoices, e \in BOOLEAN, fpw \in FpwChoices,
      gf \in GfChoices \cup GfOutOfRangeChoices }

\* the inputs these products are run with
ExploredGfConfig(c, i) ==
    /\ Explored(c, i)
    /\ c.features.free_partial_withdrawal.enabled
    /\ c.features.free_partial_withdrawal.method = "pct_of_boy_account_value"
    /\ i.premium = 100000 /\ i.initial_rate = 50
    /\ i.withdrawal_method = "fixed_amount" /\ i.withdrawal_value >= 0
    /\ ~i.projection_years_omitted
    /\ i.mva_months_remaining_override = None
    /\ i.mva_current_index_rate \in {None, Some(50)}

\* run_illustration up to the loop, lines 88-147, on these products
InitGfConfig ==
    /\ catalog \in CatalogsGfConfig
    /\ inputs \in InputChoices
    /\ ExploredGfConfig(catalog, inputs)
    /\ pc = "run"
    /\ pm = 1
    /\ av = inputs.premium
    /\ gf_state = initialize_guarantee_funds(inputs.premium, mfv_params, pfv_params)
    /\ wd_state = init_withdrawal_state
    /\ prior_year_interest = 0
    /\ current_year_interest_accum = 0
    /\ rows = << >>
    /\ raised = ""
    /\ mva_call = [called |-> FALSE, args |-> << >>, raised |-> "", mva_factor |-> 0]
    /\ rv = rvIdle

SpecGfConfig == InitGfConfig /\ [][Next]_vars

-----------------------------------------------------------------------------
(* Sequences of calc_withdrawal_for_month calls, in any order of months *)

\* the arguments the calls are made with
CallYears == 1..3
CallMonths == {1, 2, 12}
CallAvChoices == {0, 50000, 100000}
CallInterestChoices == {0 - 100, 0, 3000}
CallMvaFactorChoices == {0 - 50, 0}

ExploredCalls(c, i) ==
    /\ c.term_years = 2
    /\ c.features.mva.enabled
    /\ c.features.guarantee_funds.mfv.base_pct_of_premium # 0
    /\ Len(c.features.surrender_charge.schedule) <= 2
    /\ i.premium = 100000 /\ i.initial_rate = 50
    /\ i.projection_years = Some(2) /\ ~i.projection_years_omitted
    /\ i.mva_initial_index_rate = None

\* the budget state of init_withdrawal_state, before any call
InitCalls ==
    /\ catalog \in Catalogs
    /\ inputs \in InputChoices
    /\ ExploredCalls(catalog, inputs)
    /\ pc = "calls"
    /\ pm = 1
    /\ av = inputs.premium
    /\ gf_state = initialize_guarantee_funds(inputs.premium, mfv_params, pfv_params)
    /\ wd_state = init_withdrawal_state
    /\ prior_year_interest = 0
    /\ current_year_interest_accum = 0
    /\ rows = << >>
    /\ raised = ""
    /\ mva_call = [called |-> FALSE, args |-> << >>, raised |-> "", mva_factor |-> 0]
    /\ rv = rvIdle

\* one call of calc_withdrawal_for_month that returns; the caller keeps the state
Call ==
    /\ pc = "calls"
    /\ \E policy_year \in CallYears, month \in CallMonths, av_bop \in CallAvChoices, year_bop_av \in CallAvChoices, interest \in CallInterestChoices, f \in CallMvaFactorChoices :
           \E out \in {calc_withdrawal_for_month(wd_state, policy_year, month, av_bop, year_bop_av, interest, f)} :
               /\ out.raised = ""
               /\ wd_state' = out.state
    /\ UNCHANGED << catalog, inputs, pc, pm, av, gf_state, prior_year_interest,
                    current_year_interest_accum, rows, raised, mva_call, rv >>

\* a call that raises
CallRaises ==
    /\ pc = "calls"
    /\ \E policy_year \in CallYears, month \in CallMonths, av_bop \in CallAvChoices, year_bop_av \in CallAvChoices, interest \in CallInterestChoices, f \in CallMvaFactorChoices :
           \E out \in {calc_withdrawal_for_month(wd_state, policy_year, month, av_bop, year_bop_av, interest, f)} :
               /\ out.raised # ""
               /\ raised' = out.raised
    /\ pc' = "error"
    /\ UNCHANGED << catalog, inputs, pm, av, gf_state, wd_state, prior_year_interest,
                    current_year_interest_accum, rows, mva_call, rv >>

NextCalls == Call \/ CallRaises

SpecCalls == InitCalls /\ [][NextCalls]_vars

-----------------------------------------------------------------------------
(* carvm/annuity_pv.py *)

\* sum over m = 1..k of monthly_payment * v ** m
RECURSIVE SumDiscounted(_, _, _)
SumDiscounted(monthly_payment, v, k) ==
    IF k = 0 THEN 0
    ELSE SumDiscounted(monthly_payment, v, k - 1) + MulRate(monthly_payment, PowFix(v, k))

pv_installment_certain_monthly(monthly_payment, years, annual_discount_rate) ==
    IF years <= 0 \/ monthly_payment <= 0 THEN 0
    ELSE SumDiscounted(monthly_payment,
                       DivFix(S, S + monthly_rate_from_annual(annual_discount_rate)),
                       years * 12)

\* qx_by_age.get(age, qx_by_age.get(last_age, 1.0)), clamped into [0, 1]
QxAt(qx_by_age, age) ==
    LET last_age == IF DOMAIN qx_by_age = {} THEN 120
                    ELSE CHOOSE a \in DOMAIN qx_by_age : \A b \in DOMAIN qx_by_age : b <= a
        qx == IF age \in DOMAIN qx_by_age THEN qx_by_age[age]
              ELSE IF last_age \in DOMAIN qx_by_age THEN qx_by_age[last_age]
              ELSE S
    IN  Max2(0, Min2(S, qx))

\* the loop of lines 55-66 from month m on; a survival probability below 1e-10
\* is one that is 0 in thousandths
RECURSIVE SingleLifeLoop(_, _, _, _, _, _, _, _)
SingleLifeLoop(monthly_payment, v, age0, qx_by_age, max_months, m, s, pv) ==
    IF m > max_months THEN pv
    ELSE LET s_end == MulFix(s, Root12(S - QxAt(qx_by_age, age0 + ((m - 1) \div 12))))
         IN  IF s_end <= 0
             THEN pv + MulRate(MulRate(monthly_payment, s_end), PowFix(v, m))
             ELSE SingleLifeLoop(monthly_payment, v, age0, qx_by_age, max_months, m + 1,
                      s_end, pv + MulRate(MulRate(monthly_payment, s_end), PowFix(v, m)))

pv_single_life_monthly(monthly_payment, attained_age, annual_discount_rate, qx_by_age, max_age) ==
    IF monthly_payment <= 0 THEN 0
    ELSE SingleLifeLoop(monthly_payment,
                        DivFix(S, S + monthly_rate_from_annual(annual_discount_rate)),
                        Max2(0, attained_age), qx_by_age,
                        Max2(0, (max_age - Max2(0, attained_age)) * 12), 1, S, 0)

\* lines 98-119, from the two monthly payments
annuitization_pvs_of(m_inst, m_life, attained_age, installment_years, qx_by_age, annuity_discount_rate) ==
    IF m_inst.raised # "" THEN m_inst
    ELSE IF m_life.raised # "" THEN m_life
    ELSE Ret([pv_inst |-> pv_installment_certain_monthly(m_inst.value, installment_years,
                                                         annuity_discount_rate),
              pv_life |-> pv_single_life_monthly(m_life.value, attained_age,
                                                 annuity_discount_rate, qx_by_age, 121)])

\* (installment_pv, single_life_pv, annuitization_benefit), or the exception raised
compute_annuitization_pvs(amount_applied, attained_age, gender, installment_years, qx_by_age, annuity_discount_rate) ==
    IF amount_applied <= 0 THEN Ret([pv_inst |-> 0, pv_life |-> 0])
    ELSE annuitization_pvs_of(
             annuity_monthly_payment(amount_applied, "installment_certain",
                                     Some(installment_years), None, None),
             annuity_monthly_payment(amount_applied, "single_life_no_guarantee",
                                     None, Some(attained_age), Some(gender)),
             attained_age, installment_years, qx_by_age, annuity_discount_rate)

AnnuitizationBenefit(pvs) == Max2(pvs.pv_inst, pvs.pv_life)

-----------------------------------------------------------------------------
(* carvm/reserve.py: compute_carvm_reserve_reverse_induction, called twice on  *)
(* the same annual table with two discount rates.  Rows are numbered 1..n,     *)
(* row k being the program's idx = k - 1.                                      *)

\* str(last_year_continuation_basis).upper()
Upper(s) == IF s = "av" THEN "AV" ELSE IF s = "csv" THEN "CSV" ELSE s

\* the discount factor 1 / (1 + i)
Disc(i) == DivFix(S, S + i)

\* lines 51-55: the Surrender Benefit column
SurrenderBenefit(row, has_csv) == IF has_csv THEN row.CSV_EOY ELSE row.AV_EOY

\* mutant: the last year continues on next-year values like every other year
continuation_never_last(k, n, basis, row, has_csv, i, next_wd, next_max_benefit) ==
    next_wd + MulRate(next_max_benefit, Disc(i))

\* mutant: a year before the last continues on its own withdrawal
continuation_on_own_withdrawal(k, n, basis, row, has_csv, i, next_wd, next_max_benefit) ==
    IF k = n
    THEN IF Upper(basis) = "AV" THEN row.AV_EOY ELSE SurrenderBenefit(row, has_csv)
    ELSE row.WD + MulRate(next_max_benefit, Disc(i))

\* mutant: next year's Maximum Benefit is carried back without discounting
continuation_undiscounted(k, n, basis, row, has_csv, i, next_wd, next_max_benefit) ==
    IF k = n
    THEN IF Upper(basis) = "AV" THEN row.AV_EOY ELSE SurrenderBenefit(row, has_csv)
    ELSE next_wd + next_max_benefit

\* lines 102-108: the Continuation Benefit of row k of n
continuation_benefit(k, n, basis, row, has_csv, i, next_wd, next_max_benefit) ==
    IF k = n
    THEN IF Upper(basis) = "AV" THEN row.AV_EOY ELSE SurrenderBenefit(row, has_csv)
    ELSE next_wd + MulRate(next_max_benefit, Disc(i))

\* mutant: among equal candidates the last in dict order wins
winning_benefit_last_max(death, surr, annb, cont) ==
    LET mx == Max2(Max2(death, surr), Max2(annb, cont))
    IN  IF cont = mx THEN "Continuation Benefit"
        ELSE IF annb = mx THEN "Annuitization Benefit"
        ELSE IF surr = mx THEN "Surrender Benefit"
        ELSE "Death Benefit"

\* line 124: the first candidate, in dict order, that attains the maximum
winning_benefit(death, surr, annb, cont) ==
    LET mx == Max2(Max2(death, surr), Max2(annb, cont))
    IN  IF death = mx THEN "Death Benefit"
        ELSE IF surr = mx THEN "Surrender Benefit"
        ELSE IF annb = mx THEN "Annuitization Benefit"
        ELSE "Continuation Benefit"

\* mutant: the discount factor is applied as an accumulation factor
reserve_accumulated(max_ben, i, wd) == MulRate(max_ben, S + i) + wd

\* mutant: the year's withdrawal is left out of the reserve
reserve_without_withdrawal(max_ben, i, wd) == MulRate(max_ben, Disc(i))

\* line 116: Reserve (BOY)
reserve_boy(max_ben, i, wd) == MulRate(max_ben, Disc(i)) + wd

\* lines 97-127 for row k, given the row's continuation benefit
reserve_row(row, has_csv, annb, cont, i) ==
    LET death == row.AV_EOY
        surr == SurrenderBenefit(row, has_csv)
        max_ben == Max2(Max2(death, surr), Max2(annb, cont))
    IN  [Death_Benefit |-> death,
         Surrender_Benefit |-> surr,
         Annuitization_Benefit |-> annb,
         Continuation_Benefit |-> cont,
         Maximum_Benefit |-> max_ben,
         Reserve_BOY |-> reserve_boy(max_ben, i, row.WD),
         Winning_Benefit |-> winning_benefit(death, surr, annb, cont),
         filled |-> TRUE]

\* lines 87-90: the output columns before the loop fills them
blank_row == [Death_Benefit |-> 0, Surrender_Benefit |-> 0, Annuitization_Benefit |-> 0,
              Continuation_Benefit |-> 0, Maximum_Benefit |-> 0, Reserve_BOY |-> 0,
              Winning_Benefit |-> "", filled |-> FALSE]

\* one iteration of the loop at line 96 for one of the two calls
reserve_iteration(run, k) ==
    LET row == rv.annual_df[k]
        done == reserve_row(row, rv.has_csv, AnnuitizationBenefit(rv.ann[k]),
                    continuation_benefit(k, Len(rv.annual_df),
                        rv.args.last_year_continuation_basis, row, rv.has_csv,
                        run.carvm_discount_rate, run.next_wd, run.next_max_benefit),
                    run.carvm_discount_rate)
    IN  [run EXCEPT !.df[k] = done,
                    !.next_max_benefit = done.Maximum_Benefit,
                    !.next_wd = row.WD,
                    !.order = Append(run.order, k)]

-----------------------------------------------------------------------------
(* The reserve computations explored *)

\* the longest annual table, in policy years
MaxReserveYears == 3

\* [AV_EOY, CSV_EOY, WD] of one policy year
AnnualRowChoices ==
    { [AV_EOY |-> 0, CSV_EOY |-> 0, WD |-> 0],
      [AV_EOY |-> 100000, CSV_EOY |-> 93000, WD |-> 0],
      [AV_EOY |-> 100000, CSV_EOY |-> 100000, WD |-> 10000],
      [AV_EOY |-> 95000, CSV_EOY |-> 97000, WD |-> 12000] }

AnnualTables ==
    UNION { [1..n -> AnnualRowChoices] : n \in 0..MaxReserveYears }

\* << carvm_discount_rate of the first call, of the second call >>, first < second
CarvmRatePairs == { << 0, 30 >>, << 30, 50 >>, << -100, 50 >> }

QxChoices == { (60 :> 10) @@ (61 :> 50) @@ (62 :> 300) @@ (63 :> S) }

ReserveArgChoices ==
    { [issue_age |-> 60, gender |-> g, annuity_discount_rate |-> 30,
       installment_years |-> y, qx_by_age |-> q, last_year_continuation_basis |-> b] :
      g \in {"F"}, y \in {0, 2}, q \in QxChoices, b \in {"AV", "CSV", "av"} }

\* an unusable installment term is explored with one basis and the full table
ReserveExplored(tbl, has_csv, a) ==
    a.installment_years = 0 =>
        a.last_year_continuation_basis = "CSV" /\ has_csv /\ Len(tbl) = MaxReserveYears

new_run(i, n) == [carvm_discount_rate |-> i, next_max_benefit |-> 0, next_wd |-> 0,
                  df |-> [k \in 1..n |-> blank_row], order |-> << >>]

InitReserve ==
    /\ catalog = << >> /\ inputs = << >> /\ pc = "idle" /\ pm = 0 /\ av = 0
    /\ gf_state = << >> /\ wd_state = << >> /\ prior_year_interest = 0
    /\ current_year_interest_accum = 0 /\ rows = << >> /\ raised = ""
    /\ mva_call = << >>
    /\ \E tbl \in AnnualTables, has_csv \in BOOLEAN, a \in ReserveArgChoices,
          rates \in CarvmRatePairs :
           /\ ReserveExplored(tbl, has_csv, a)
           /\ rv = [pc |-> "prepare", annual_df |-> tbl, has_csv |-> has_csv, args |-> a,
                    ann |-> << >>, raised |-> "", idx |-> Len(tbl),
                    runs |-> << new_run(rates[1], Len(tbl)), new_run(rates[2], Len(tbl)) >>]

\* the annuitization PVs of every row, lines 57-81
AnnuitizationColumn ==
    [k \in 1..Len(rv.annual_df) |->
        compute_annuitization_pvs(rv.annual_df[k].AV_EOY, rv.args.issue_age + k,
            rv.args.gender, rv.args.installment_years, rv.args.qx_by_age,
            rv.args.annuity_discount_rate)]

\* lines 40-94: the columns are prepared and the loop is entered
Prepare ==
    /\ rv.pc = "prepare"
    /\ \E col \in {AnnuitizationColumn} :
           /\ \A k \in DOMAIN col : col[k].raised = ""
           /\ rv' = [rv EXCEPT !.pc = "loop",
                               !.ann = [k \in DOMAIN col |-> col[k].value]]
    /\ UNCHANGED illVars

\* an annuity table lookup raises while the columns are prepared
PrepareRaises ==
    /\ rv.pc = "prepare"
    /\ \E col \in {AnnuitizationColumn} :
           /\ \E k \in DOMAIN col : col[k].raised # ""
           /\ rv' = [rv EXCEPT !.pc = "error", !.raised = "ValueError"]
    /\ UNCHANGED illVars

\* one iteration of the loop at line 96, in both calls
ReserveStep ==
    /\ rv.pc = "loop"
    /\ rv.idx >= 1
    /\ rv' = [rv EXCEPT !.runs = << reserve_iteration(rv.runs[1], rv.idx),
                                    reserve_iteration(rv.runs[2], rv.idx) >>,
                        !.idx = rv.idx - 1]
    /\ UNCHANGED illVars

\* return df, line 129
ReserveReturn ==
    /\ rv.pc = "loop"
    /\ rv.idx < 1
    /\ rv' = [rv EXCEPT !.pc = "done"]
    /\ UNCHANGED illVars

NextReserve == Prepare \/ PrepareRaises \/ ReserveStep \/ ReserveReturn

SpecReserve == InitReserve /\ [][NextReserve]_vars

-----------------------------------------------------------------------------
(* Properties of the monthly projection *)

Months == 1..Len(rows)

FloorActive(r) == r.av_eop_before_floor < r.av_nff_floor

\* C1: in every month produced, the ending account value reported and carried
\* forward is at least the greater of the two guarantee-fund ending balances
C1_MonotonicFloor ==
    /\ \A k \in Months : rows[k].av_eop >= Max2(rows[k].gf_mfv_eop, rows[k].gf_pfv_eop)
    /\ Len(rows) > 0 /\ pc # "idle" => av = rows[Len(rows)].av_eop

C1_Witness ==
    \E k \in Months : /\ FloorActive(rows[k])
                      /\ rows[k].av_eop = rows[k].gf_pfv_eop
                      /\ rows[k].gf_pfv_eop > rows[k].gf_mfv_eop

NoWithdrawalPath(r) ==
    /\ r.wd_withdrawal_amount = 0
    /\ r.wd_penalty_total = 0
    /\ r.av_eop = MulRate(r.av_bop, S + monthly_rate_from_annual(r.meta_annual_rate))

\* C3 as stated: withdrawal_value = 0 and guarantee funds below the account value
\* in every month give, in every month, no withdrawal, no penalty and
\* av_eop = av_bop * (1 + monthly_rate)
C3_AsStated ==
    (pc = "done" /\ inputs.withdrawal_value = 0 /\ \A k \in Months : ~FloorActive(rows[k]))
        => \A k \in Months : NoWithdrawalPath(rows[k])

\* C3 amended: the same when, in addition, the withdrawal method is not
\* prior_year_interest_credited (that method does not read withdrawal_value)
C3_Conservation ==
    (inputs.withdrawal_value = 0 /\ inputs.withdrawal_method # "prior_year_interest_credited")
        => \A k \in Months : ~FloorActive(rows[k]) => NoWithdrawalPath(rows[k])

C3_Witness ==
    /\ inputs.withdrawal_value = 0
    /\ inputs.withdrawal_method = "fixed_amount"
    /\ \E k \in Months : /\ rows[k].meta_policy_year >= 2
                         /\ rows[k].meta_month_in_policy_year = 1
                         /\ rows[k].av_interest_credit > 0
                         /\ ~FloorActive(rows[k])

\* the first month of the policy year month k belongs to
YearStart(k) == k - ((k - 1) % 12)

NoWithdrawalInYearUpTo(k) == \A j \in YearStart(k)..k : rows[j].wd_withdrawal_amount = 0

\* C4: in a policy year in which no withdrawal is taken, free_used_ytd stays 0 and
\* free_remaining_ytd stays equal to the year's free limit in every month of the year
C4_FreeBudgetIdempotence ==
    /\ \A k \in Months :
           NoWithdrawalInYearUpTo(k) =>
               /\ rows[k].wd_free_used_ytd_eop = 0
               /\ rows[k].wd_free_limit_ytd = rows[YearStart(k)].wd_free_limit_ytd
               /\ rows[k].wd_free_remaining_eop = rows[YearStart(k)].wd_free_limit_ytd
    /\ (Len(rows) > 0 /\ NoWithdrawalInYearUpTo(Len(rows))) =>
           /\ wd_state.free_used_ytd = 0
           /\ wd_state.free_remaining_ytd = wd_state.free_limit_ytd

C4_Witness ==
    \E k \in Months : /\ rows[k].meta_policy_year >= 2
                      /\ rows[k].meta_month_in_policy_year = 12
                      /\ NoWithdrawalInYearUpTo(k)
                      /\ rows[k].wd_free_limit_ytd > 0
                      /\ rows[k].wd_free_remaining_eop = rows[k].wd_free_limit_ytd

RECURSIVE SumInterest(_, _)
SumInterest(lo, hi) ==
    IF lo > hi THEN 0 ELSE rows[hi].av_interest_credit + SumInterest(lo, hi - 1)

\* the withdrawal requested for month k under the three supported methods
Requested(k) ==
    IF inputs.withdrawal_method = "pct_of_boy_av"
    THEN MulRate(rows[k].av_bop, inputs.withdrawal_value)
    ELSE IF inputs.withdrawal_method = "fixed_amount"
    THEN inputs.withdrawal_value \div S
    ELSE SumInterest(k - 12, k - 1)

SupportedMethod ==
    inputs.withdrawal_method \in
        {"pct_of_boy_av", "fixed_amount", "prior_year_interest_credited"}

ScheduledChargePct(y) ==
    IF y <= catalog.term_years THEN catalog.features.surrender_charge.schedule[y]
    ELSE catalog.features.surrender_charge.after_term_default_charge_pct

WithdrawalMonth(r) == r.meta_month_in_policy_year = 1 /\ r.meta_policy_year >= 2

\* C7: in a withdrawal month the request is clamped into [0, av_bop], split into
\* free = min(withdrawal, remaining free budget) and excess = withdrawal - free,
\* and the surrender charge is excess * the year's percentage
C7_ClampAndSplit ==
    \A k \in Months :
        WithdrawalMonth(rows[k]) =>
            LET r == rows[k]
            IN  /\ 0 <= r.wd_withdrawal_amount /\ r.wd_withdrawal_amount <= r.av_bop
                /\ SupportedMethod =>
                       r.wd_withdrawal_amount = Min2(Max2(0, Requested(k)), r.av_bop)
                /\ r.wd_free_used_this_txn = Min2(r.wd_withdrawal_amount, r.wd_free_limit_ytd)
                /\ r.wd_excess_amount = r.wd_withdrawal_amount - r.wd_free_used_this_txn
                /\ r.wd_surrender_charge_pct = ScheduledChargePct(r.meta_policy_year)
                /\ r.wd_surrender_charge_amount =
                       MulRate(r.wd_excess_amount, r.wd_surrender_charge_pct)

C7_Witness ==
    \E k \in Months : /\ WithdrawalMonth(rows[k])
                      /\ rows[k].wd_withdrawal_amount = 12000
                      /\ rows[k].wd_free_limit_ytd = 10000
                      /\ rows[k].wd_surrender_charge_pct = 70
                      /\ rows[k].wd_excess_amount = 2000
                      /\ rows[k].wd_surrender_charge_amount = 140

InvalidMvaRates ==
    \/ S + mva_call.args.x_initial_index_rate <= 0
    \/ S + mva_call.args.y_current_index_rate <= 0

\* C8: the MVA factor calculation returns exactly 0 whenever the months remaining
\* are <= 0, whatever X and Y are
C8_ZeroFactorAtNoMonths ==
    (mva_call.called /\ mva_call.args.n_months_remaining <= 0)
        => mva_call.raised = "" /\ mva_call.mva_factor = 0 /\ pc # "error"

C8_Witness ==
    /\ mva_call.called
    /\ mva_call.args.n_months_remaining <= 0
    /\ InvalidMvaRates
    /\ Len(rows) > 0
    /\ rows[Len(rows)].mva_factor = 0

\* C9 as stated: the calculation fails with a domain error whenever 1+X <= 0 or
\* 1+Y <= 0, and the error leaves run_illustration
C9_AsStated ==
    (mva_call.called /\ InvalidMvaRates)
        => mva_call.raised = "ValueError" /\ pc = "error" /\ raised = "ValueError"

\* C9 amended: it fails so whenever the months remaining are > 0 and 1+X <= 0 or
\* 1+Y <= 0; the error leaves run_illustration and no row is produced for the month
C9_DomainErrorPropagates ==
    (mva_call.called /\ mva_call.args.n_months_remaining > 0 /\ InvalidMvaRates)
        => /\ mva_call.raised = "ValueError"
           /\ pc = "error"
           /\ raised = "ValueError"
           /\ Len(rows) = pm - 1

C9_Witness ==
    /\ pc = "error"
    /\ raised = "ValueError"
    /\ mva_call.args.n_months_remaining > 0
    /\ S + mva_call.args.y_current_index_rate <= 0

\* the horizon in years: the requested one, or the product term when none is given
HorizonYears ==
    IF ~IsNone(inputs.projection_years) /\ Val(inputs.projection_years) > 0
    THEN Val(inputs.projection_years)
    ELSE catalog.term_years

RowsInOrder ==
    \A k \in Months : /\ rows[k].meta_policy_month = k
                      /\ rows[k].meta_policy_year = ((k - 1) \div 12) + 1
                      /\ rows[k].meta_month_in_policy_year = k - (12 * ((k - 1) \div 12))

\* C10: run_illustration ends (every step of a running loop appends the row of
\* the next month or ends the run, and the month never passes N + 1), and when it
\* returns it returns exactly horizon_years * 12 rows, month 1..N in ascending
\* order without gaps, each policy year holding months-in-year 1..12
C10_OneRowPerMonth ==
    /\ [](/\ RowsInOrder
          /\ pc = "done" => Len(rows) = HorizonYears * 12
          /\ pc = "run" => Len(rows) = pm - 1 /\ pm <= (HorizonYears * 12) + 1)
    /\ [][pc = "run" => \/ pc' = "run" /\ pm' = pm + 1 /\ Len(rows') = Len(rows) + 1
                        \/ pc' = "error" /\ rows' = rows
                        \/ pc' = "done" /\ rows' = rows /\ pm = (HorizonYears * 12) + 1]_vars

C10_Witness ==
    /\ pc = "done"
    /\ Len(rows) = 24
    /\ rows[24].meta_policy_year = 2
    /\ rows[24].meta_month_in_policy_year = 12
    /\ catalog.term_years = 1

-----------------------------------------------------------------------------
(* Properties of the reserve recursion *)

ReserveRuns == IF rv.pc \in {"loop", "done"} THEN {1, 2} ELSE {}

LastYear == Len(rv.annual_df)

\* x / (1 + i), as a product with the discount factor
Discounted(x, i) == (x * ((S * S) \div (S + i))) \div S

LastYearBasis ==
    IF rv.args.last_year_continuation_basis \in {"AV", "av"}
    THEN rv.annual_df[LastYear].AV_EOY
    ELSE IF rv.has_csv THEN rv.annual_df[LastYear].CSV_EOY
    ELSE rv.annual_df[LastYear].AV_EOY

\* C5: in the final projection year the Continuation Benefit is the configured
\* last-year basis (the ending account value when the flag is AV, the ending CSV
\* otherwise, which is the ending account value when the table has no CSV), the
\* Maximum Benefit is the largest of the four benefits, and the Reserve is the
\* Maximum Benefit discounted one year at i plus the year's withdrawal
C5_LastYearReserve ==
    \A r \in ReserveRuns :
        (LastYear >= 1 /\ rv.runs[r].df[LastYear].filled) =>
            LET out == rv.runs[r].df[LastYear]
                benefits == {out.Death_Benefit, out.Surrender_Benefit,
                             out.Annuitization_Benefit, out.Continuation_Benefit}
            IN  /\ out.Continuation_Benefit = LastYearBasis
                /\ out.Death_Benefit = rv.annual_df[LastYear].AV_EOY
                /\ out.Maximum_Benefit \in benefits
                /\ \A b \in benefits : b <= out.Maximum_Benefit
                /\ out.Reserve_BOY =
                       Discounted(out.Maximum_Benefit, rv.runs[r].carvm_discount_rate)
                       + rv.annual_df[LastYear].WD

C5_Witness ==
    /\ rv.pc = "done"
    /\ LastYear = 2
    /\ rv.has_csv
    /\ rv.args.last_year_continuation_basis = "CSV"
    /\ rv.annual_df[LastYear].CSV_EOY = 93000
    /\ rv.runs[1].carvm_discount_rate = 30
    /\ rv.runs[1].df[LastYear].Continuation_Benefit = 93000
    /\ rv.runs[1].df[LastYear].Maximum_Benefit = 100000
    /\ rv.runs[1].df[LastYear].Reserve_BOY = 97000

\* C6: with the annual table and every other input held fixed, a larger
\* carvm_discount_rate (above -100%) gives no policy year a larger reserve
C6_ReserveMonotoneInDiscountRate ==
    (rv.pc \in {"loop", "done"}
     /\ rv.runs[1].carvm_discount_rate < rv.runs[2].carvm_discount_rate) =>
        \A k \in 1..LastYear :
            (rv.runs[1].df[k].filled /\ rv.runs[2].df[k].filled) =>
                rv.runs[2].df[k].Reserve_BOY <= rv.runs[1].df[k].Reserve_BOY

C6_Witness ==
    /\ rv.pc = "done"
    /\ LastYear = MaxReserveYears
    /\ rv.runs[1].carvm_discount_rate < rv.runs[2].carvm_discount_rate
    /\ \A k \in 1..LastYear :
           /\ rv.runs[1].df[k].filled /\ rv.runs[2].df[k].filled
           /\ rv.runs[2].df[k].Reserve_BOY < rv.runs[1].df[k].Reserve_BOY
    /\ rv.runs[1].df[1].Winning_Benefit = "Continuation Benefit"

-----------------------------------------------------------------------------
(* Further properties of the monthly projection *)

\* C11 as stated: when the inputs are built without a projection horizon,
\* run_illustration returns term_years * 12 rows
C11_AsStated ==
    (pc = "done" /\ inputs.projection_years_omitted) =>
        Len(rows) = catalog.term_years * 12

\* C12: a non-zero withdrawal occurs only in month 1 of a policy year >= 2: in
\* every month of policy year 1 and in months 2..12 of every year the withdrawal
\* amount, excess, surrender-charge amount, MVA amount and penalty total are 0
C12_WithdrawalOnlyAtYearStart ==
    \A k \in Months :
        (k <= 12 \/ k % 12 # 1) =>
            /\ rows[k].wd_withdrawal_amount = 0
            /\ rows[k].wd_free_used_this_txn = 0
            /\ rows[k].wd_excess_amount = 0
            /\ rows[k].wd_surrender_charge_amount = 0
            /\ rows[k].wd_mva_amount = 0
            /\ rows[k].wd_penalty_total = 0

C12_Witness ==
    /\ Len(rows) >= 14
    /\ rows[13].wd_withdrawal_amount > 0
    /\ rows[13].wd_excess_amount > 0
    /\ rows[13].wd_penalty_total > 0
    /\ rows[14].wd_withdrawal_amount = 0
    /\ rows[14].av_bop > 0
    /\ inputs.withdrawal_method = "fixed_amount"

-----------------------------------------------------------------------------
(* Further properties of the reserve recursion *)

BenefitOrder ==
    << "Death Benefit", "Surrender Benefit", "Annuitization Benefit",
       "Continuation Benefit" >>

BenefitValues(out) ==
    << out.Death_Benefit, out.Surrender_Benefit, out.Annuitization_Benefit,
       out.Continuation_Benefit >>

\* C13: in every policy year the Maximum Benefit is the largest of Death,
\* Surrender, Annuitization and Continuation, and the Winning Benefit is the first
\* of them, in that order, whose value is that maximum
C13_MaximumAndWinner ==
    \A r \in ReserveRuns : \A k \in 1..LastYear :
        rv.runs[r].df[k].filled =>
            LET out == rv.runs[r].df[k]
                v == BenefitValues(out)
            IN  /\ \A j \in 1..4 : v[j] <= out.Maximum_Benefit
                /\ \E j \in 1..4 :
                       /\ v[j] = out.Maximum_Benefit
                       /\ out.Winning_Benefit = BenefitOrder[j]
                       /\ \A h \in 1..(j - 1) : v[h] < out.Maximum_Benefit

C13_Witness ==
    /\ rv.pc = "done"
    /\ LastYear = 3
    /\ rv.has_csv
    /\ rv.runs[1].df[3].Surrender_Benefit = rv.runs[1].df[3].Continuation_Benefit
    /\ rv.runs[1].df[3].Surrender_Benefit = rv.runs[1].df[3].Maximum_Benefit
    /\ rv.runs[1].df[3].Death_Benefit < rv.runs[1].df[3].Surrender_Benefit
    /\ rv.runs[1].df[3].Winning_Benefit = "Surrender Benefit"
    /\ rv.runs[1].df[2].Death_Benefit = rv.runs[1].df[2].Surrender_Benefit
    /\ rv.runs[1].df[2].Winning_Benefit = "Continuation Benefit"

\* C14: in every policy year of the annual table, not only the last, Reserve
\* (BOY) is that year's Maximum Benefit discounted one year at the CARVM rate
\* plus that same year's beginning-of-year withdrawal
C14_ReserveEveryYear ==
    \A r \in ReserveRuns : \A k \in 1..LastYear :
        rv.runs[r].df[k].filled =>
            rv.runs[r].df[k].Reserve_BOY =
                Discounted(rv.runs[r].df[k].Maximum_Benefit,
                           rv.runs[r].carvm_discount_rate)
                + rv.annual_df[k].WD

C14_Witness ==
    /\ rv.pc = "done"
    /\ LastYear = 3
    /\ rv.annual_df[1].WD = 12000
    /\ rv.annual_df[2].WD = 0
    /\ rv.annual_df[3].WD = 10000
    /\ rv.runs[2].carvm_discount_rate = 50
    /\ rv.runs[2].df[1].Reserve_BOY > rv.runs[2].df[1].Maximum_Benefit
    /\ rv.runs[2].df[2].Reserve_BOY < rv.runs[2].df[2].Maximum_Benefit

\* C15: the years are processed strictly from the last down to year 1, and in
\* every year y before the last the Continuation Benefit is the withdrawal of
\* year y+1 plus the Maximum Benefit of year y+1 discounted one year, year y+1
\* being final when year y is computed
C15_BackwardRecursion ==
    \A r \in ReserveRuns :
        LET run == rv.runs[r]
        IN  /\ \A j \in 1..Len(run.order) : run.order[j] = LastYear - (j - 1)
            /\ \A k \in 1..LastYear : run.df[k].filled <=> (k > rv.idx)
            /\ \A k \in 1..(LastYear - 1) :
                   run.df[k].filled =>
                       /\ run.df[k + 1].filled
                       /\ run.df[k].Continuation_Benefit =
                              rv.annual_df[k + 1].WD
                              + Discounted(run.df[k + 1].Maximum_Benefit,
                                           run.carvm_discount_rate)

C15_Witness ==
    /\ rv.pc = "loop"
    /\ LastYear = 3
    /\ rv.idx = 1
    /\ rv.runs[1].order = << 3, 2 >>
    /\ rv.annual_df[3].WD = 10000
    /\ rv.annual_df[2].WD = 0
    /\ rv.runs[1].carvm_discount_rate = 30
    /\ rv.runs[1].df[3].Maximum_Benefit = 100000
    /\ rv.runs[1].df[2].Continuation_Benefit = 107000
    /\ ~rv.runs[1].df[1].filled

-----------------------------------------------------------------------------
(* The surrender-charge percentage resolved for the months of a projection *)

Schedule == catalog.features.surrender_charge.schedule

AfterTermDefault == catalog.features.surrender_charge.after_term_default_charge_pct

\* C16 as stated: resolving the percentage has no error outcome; each month's
\* percentage is the schedule's entry for its policy year when one exists and the
\* after-term default when the year is beyond the schedule's entries
C16_AsStated ==
    /\ raised # "ProductSpecValidationError"
    /\ \A k \in Months :
           k # term_months =>
               rows[k].csv_sc_pct_used =
                   IF rows[k].meta_policy_year \in DOMAIN Schedule
                   THEN Schedule[rows[k].meta_policy_year]
                   ELSE AfterTermDefault

\* C16 amended: the percentage resolved is the schedule's entry when the policy
\* year is within the product term and the schedule has one, the after-term
\* default when the year is beyond the term whatever the schedule holds, and the
\* resolution fails, ending the run, when the year is within the term and the
\* schedule lacks it
C16_ChargeResolution ==
    /\ \A k \in Months :
           LET y == rows[k].meta_policy_year
               pct == IF y <= catalog.term_years THEN Schedule[y] ELSE AfterTermDefault
           IN  /\ y <= catalog.term_years => y \in DOMAIN Schedule
               /\ k # term_months => rows[k].csv_sc_pct_used = pct
               /\ WithdrawalMonth(rows[k]) => rows[k].wd_surrender_charge_pct = pct
    /\ raised = "ProductSpecValidationError" =>
           /\ pc = "error"
           /\ Len(rows) = pm - 1
           /\ PolicyYear(pm) <= catalog.term_years
           /\ PolicyYear(pm) \notin DOMAIN Schedule

C16_Witness ==
    /\ pc = "error"
    /\ raised = "ProductSpecValidationError"
    /\ catalog.term_years = 2
    /\ DOMAIN Schedule = {1}
    /\ Len(rows) = 12
    /\ rows[12].csv_sc_pct_used = 80

\* C17 as stated: an unsupported withdrawal-method string is a domain error that
\* propagates when the withdrawal is computed, so no withdrawal month of such a
\* run ever yields a row
C17_AsStated ==
    ~SupportedMethod => \A k \in Months : ~WithdrawalMonth(rows[k])

-----------------------------------------------------------------------------
(* Guarantee funds and account value within a month *)

\* x credited one month at the annual rate r: x * (1 + r) ^ (1/12)
CreditedOneMonth(x, r) == (x * Root12(S + r)) \div S

MfvRate(y) ==
    IF y <= catalog.term_years THEN inputs.initial_rate
    ELSE catalog.features.minimum_guaranteed_rate

PfvRate(y) ==
    IF y <= catalog.features.guarantee_funds.pfv.rate_years
    THEN catalog.features.guarantee_funds.pfv.rate_annual
    ELSE catalog.features.guarantee_funds.pfv.rate_after_years_annual

\* C18: each month both guarantee-fund balances are reduced by the gross
\* withdrawal only, floored at zero, and then credited one month of interest at
\* the track's rate; the surrender charge, MVA amount and penalty total of the
\* month change neither balance
C18_GuaranteeFundsRollForward ==
    \A k \in Months :
        LET r == rows[k]
        IN  /\ r.gf_mfv_eop =
                   CreditedOneMonth(Max2(0, r.gf_mfv_bop - r.wd_withdrawal_amount),
                                    MfvRate(r.meta_policy_year))
            /\ r.gf_pfv_eop =
                   CreditedOneMonth(Max2(0, r.gf_pfv_bop - r.wd_withdrawal_amount),
                                    PfvRate(r.meta_policy_year))
            /\ k > 1 => /\ r.gf_mfv_bop = rows[k - 1].gf_mfv_eop
                        /\ r.gf_pfv_bop = rows[k - 1].gf_pfv_eop

C18_Witness ==
    /\ Len(rows) >= 13
    /\ rows[13].wd_withdrawal_amount = 12000
    /\ rows[13].wd_surrender_charge_amount > 0
    /\ rows[13].wd_mva_amount # 0
    /\ rows[13].wd_penalty_total > 0
    /\ rows[13].gf_mfv_bop > 12000
    /\ rows[13].gf_pfv_bop > 12000
    /\ rows[13].gf_mfv_eop > rows[13].gf_mfv_bop - 12000
    /\ rows[13].gf_pfv_eop >= rows[13].gf_pfv_bop - 12000
    /\ rows[13].gf_pfv_eop < rows[13].gf_pfv_bop

-----------------------------------------------------------------------------
(* Cash surrender value of a month *)

Fpw == catalog.features.free_partial_withdrawal

\* the free limit of the policy year that starts at month k, from the product's
\* free-withdrawal rule (0 when the product has the feature switched off)
YearFreeLimit(k) ==
    IF ~Fpw.enabled THEN 0
    ELSE IF Fpw.method = "pct_of_boy_account_value"
    THEN MulRate(rows[k].av_bop, Fpw.params.pct)
    ELSE Max2(0, SumInterest(k - 12, k - 1))

\* C22: at month 1 of every policy year >= 2 the budget is reset before the
\* withdrawal is split: the limit is pct * beginning-of-year account value or the
\* prior year's credited interest (never negative), used is 0 and remaining is the
\* new limit, nothing of the previous year is carried over; in policy year 1 the
\* free limit is 0
C22_BudgetReset ==
    \A k \in Months :
        LET r == rows[k]
        IN  /\ WithdrawalMonth(r) =>
                   /\ r.wd_free_limit_ytd = YearFreeLimit(k)
                   /\ r.wd_free_limit_ytd >= 0
                   /\ r.wd_free_used_this_txn = Min2(r.wd_withdrawal_amount, r.wd_free_limit_ytd)
                   /\ r.wd_free_used_ytd_eop = r.wd_free_used_this_txn
                   /\ r.wd_free_remaining_eop = r.wd_free_limit_ytd - r.wd_free_used_this_txn
            /\ r.meta_policy_year = 1 => r.wd_free_limit_ytd = 0

C22_Witness ==
    /\ Len(rows) >= 25
    /\ rows[24].wd_free_used_ytd_eop > 0
    /\ rows[25].wd_free_limit_ytd > 0
    /\ rows[25].wd_free_limit_ytd = MulRate(rows[25].av_bop, Fpw.params.pct)
    /\ rows[25].wd_withdrawal_amount > rows[25].wd_free_limit_ytd
    /\ rows[25].wd_free_used_ytd_eop = rows[25].wd_free_limit_ytd
    /\ rows[25].wd_free_remaining_eop = 0

\* a budget left unused in year 2 is not added to the limit of year 3
C22_WitnessNothingCarried ==
    /\ Len(rows) >= 25
    /\ rows[24].wd_free_remaining_eop > 0
    /\ rows[25].wd_free_limit_ytd = MulRate(rows[25].av_bop, Fpw.params.pct)
    /\ rows[25].wd_free_remaining_eop = rows[25].wd_free_limit_ytd

\* the interest rule: a year's limit is the interest credited in the year before
C22_WitnessInterestRule ==
    /\ Len(rows) >= 13
    /\ Fpw.enabled /\ Fpw.method = "prior_year_interest_credited"
    /\ rows[13].wd_free_limit_ytd = SumInterest(1, 12)
    /\ rows[13].wd_free_limit_ytd > 0
    /\ rows[13].wd_free_used_ytd_eop > 0

(***************************************************************************)
(* The market value adjustment of a withdrawal                              *)
(***************************************************************************)

\* C23: in a withdrawal month the amount subject to the MVA is
\* max(0, excess - surrender charge amount), the MVA amount is that amount times
\* the month's MVA factor and the penalty total is the surrender charge amount
\* plus the MVA amount; when the excess is 0 all three are 0
C23_WithdrawalMva ==
    \A k \in Months :
        LET r == rows[k]
        IN  WithdrawalMonth(r) =>
                /\ r.wd_mva_factor = r.mva_factor
                /\ r.wd_mva_amount_subject =
                       Max2(0, r.wd_excess_amount - r.wd_surrender_charge_amount)
                /\ r.wd_mva_amount = MulRate(r.wd_mva_amount_subject, r.mva_factor)
                /\ r.wd_penalty_total = r.wd_surrender_charge_amount + r.wd_mva_amount
                /\ r.wd_excess_amount = 0 =>
                       /\ r.wd_mva_amount_subject = 0
                       /\ r.wd_mva_amount = 0
                       /\ r.wd_penalty_total = 0

C23_Witness ==
    \E k \in Months :
        /\ WithdrawalMonth(rows[k])
        /\ rows[k].wd_excess_amount > 0
        /\ rows[k].wd_surrender_charge_amount > 0
        /\ rows[k].wd_mva_amount_subject > 0
        /\ rows[k].wd_mva_amount_subject < rows[k].wd_excess_amount
        /\ rows[k].mva_factor < 0
        /\ rows[k].wd_mva_amount < 0
        /\ rows[k].wd_penalty_total > 0
        /\ rows[k].wd_penalty_total < rows[k].wd_surrender_charge_amount

(***************************************************************************)
(* The annual view of a monthly table                                       *)
(***************************************************************************)

\* C24: the annual view of a complete monthly table has exactly one row per
\* policy year, sorted by policy year; AV_BOY and WD are the av_bop and the
\* withdrawal amount of month 1 of the year, AV_EOY and CSV_EOY the av_eop and
\* the final CSV of month 12
C24_AnnualView ==
    rv.pc = "annual" =>
        /\ rv.raised = ""
        /\ Len(rv.annual_df) * 12 = Len(rows)
        /\ \A y \in 1..Len(rv.annual_df) :
               LET a == rv.annual_df[y]
                   first == rows[(12 * (y - 1)) + 1]
                   last == rows[12 * y]
               IN  /\ a.Policy_Year = y
                   /\ a.AV_BOY = first.av_bop
                   /\ a.WD = first.wd_withdrawal_amount
                   /\ a.AV_EOY = last.av_eop
                   /\ a.CSV_EOY = last.csv_final

C24_Witness ==
    /\ rv.pc = "annual"
    /\ Len(rv.annual_df) = 2
    /\ rv.annual_df[2].WD > 0
    /\ rv.annual_df[2].AV_BOY > rv.annual_df[2].AV_EOY
    /\ rv.annual_df[2].AV_BOY # rows[24].av_bop
    /\ rv.annual_df[1].CSV_EOY < rv.annual_df[1].AV_EOY
    /\ rv.annual_df[1].AV_EOY = rv.annual_df[2].AV_BOY

(***************************************************************************)
(* The guarantee-fund configuration at initialization                       *)
(***************************************************************************)

GfConfig == catalog.features.guarantee_funds

GfConfigOutOfRange ==
    \/ GfConfig.mfv.base_pct_of_premium < 0
    \/ GfConfig.pfv.base_pct_of_premium < 0
    \/ GfConfig.pfv.rate_years < 0

\* C25: guarantee-fund initialization rejects a negative base percentage of
\* premium and a negative number of rate years with a failure, instead of
\* producing fund balances; for a valid configuration each balance starts at its
\* configured percentage of premium
C25_AsStated ==
    /\ GfConfigOutOfRange => rows = << >> /\ pc # "done"
    /\ ~GfConfigOutOfRange /\ Len(rows) >= 1 =>
           /\ rows[1].gf_mfv_bop = MulRate(inputs.premium, GfConfig.mfv.base_pct_of_premium)
           /\ rows[1].gf_pfv_bop = MulRate(inputs.premium, GfConfig.pfv.base_pct_of_premium)

\* what the code does: every balance starts at its percentage of premium, a
\* negative percentage included, and the run completes
C25_BalancesWhateverTheSign ==
    Len(rows) >= 1 =>
        /\ rows[1].gf_mfv_bop = MulRate(inputs.premium, GfConfig.mfv.base_pct_of_premium)
        /\ rows[1].gf_pfv_bop = MulRate(inputs.premium, GfConfig.pfv.base_pct_of_premium)

C25_NegativeBalanceReported ==
    /\ pc = "done"
    /\ GfConfig.mfv.base_pct_of_premium < 0
    /\ rows[1].gf_mfv_bop < 0

(***************************************************************************)
(* What one month hands to the next                                         *)
(***************************************************************************)

\* C26: the beginning account value of month m + 1 is the ending account value
\* of month m after the floor, the beginning guarantee-fund balances of month
\* m + 1 are the ending balances of month m, and the beginning account value of
\* month 1 is the premium
C26_CarryForward ==
    /\ Len(rows) >= 1 => rows[1].av_bop = inputs.premium
    /\ \A k \in Months :
           k < Len(rows) =>
               /\ rows[k + 1].av_bop = Max2(rows[k].av_eop_before_floor, rows[k].av_nff_floor)
               /\ rows[k + 1].av_bop = rows[k].av_eop
               /\ rows[k + 1].gf_mfv_bop = rows[k].gf_mfv_eop
               /\ rows[k + 1].gf_pfv_bop = rows[k].gf_pfv_eop

C26_Witness ==
    \E k \in Months :
        /\ k < Len(rows)
        /\ FloorActive(rows[k])
        /\ rows[k + 1].av_bop = rows[k].av_nff_floor
        /\ rows[k + 1].av_bop > rows[k].av_eop_before_floor
        /\ rows[k + 1].gf_mfv_bop > 0
        /\ rows[k + 1].gf_mfv_bop # rows[k].gf_mfv_bop
        /\ rows[1].av_bop = 100000

(***************************************************************************)
(* The budget state over any sequence of calls                              *)
(***************************************************************************)

\* C27: after any sequence of calc_withdrawal_for_month calls that starts from
\* init_withdrawal_state, 0 <= free_used_ytd <= free_limit_ytd and
\* free_remaining_ytd = free_limit_ytd - free_used_ytd
C27_BudgetInvariant ==
    /\ 0 <= wd_state.free_used_ytd
    /\ wd_state.free_used_ytd <= wd_state.free_limit_ytd
    /\ wd_state.free_remaining_ytd = wd_state.free_limit_ytd - wd_state.free_used_ytd

C27_Witness ==
    /\ pc = "calls"
    /\ wd_state.policy_year = 3
    /\ wd_state.month_in_policy_year = 12
    /\ wd_state.free_used_ytd > 0
    /\ wd_state.free_used_ytd < wd_state.free_limit_ytd
    /\ wd_state.free_remaining_ytd > 0

(***************************************************************************)
(* Continuation Benefit and next year's reserve                             *)
(***************************************************************************)

\* C28: in every year y before the last the Continuation Benefit of y equals the
\* Reserve (BOY) of year y + 1, hence the Maximum Benefit of y is at least the
\* Reserve (BOY) of year y + 1
C28_ContinuationIsNextReserve ==
    \A r \in ReserveRuns : \A k \in 1..(LastYear - 1) :
        rv.runs[r].df[k].filled =>
            /\ rv.runs[r].df[k].Continuation_Benefit = rv.runs[r].df[k + 1].Reserve_BOY
            /\ rv.runs[r].df[k].Maximum_Benefit >= rv.runs[r].df[k + 1].Reserve_BOY

C28_Witness ==
    /\ rv.pc = "done"
    /\ LastYear = 3
    /\ \E r \in ReserveRuns :
           /\ rv.runs[r].carvm_discount_rate > 0
           /\ rv.runs[r].df[2].Continuation_Benefit = rv.runs[r].df[3].Reserve_BOY
           /\ rv.runs[r].df[2].Maximum_Benefit = rv.runs[r].df[3].Reserve_BOY
           /\ rv.runs[r].df[3].Reserve_BOY > rv.runs[r].df[3].Maximum_Benefit
           /\ rv.runs[r].df[1].Continuation_Benefit = rv.runs[r].df[2].Reserve_BOY
           /\ rv.runs[r].df[1].Continuation_Benefit > 0
           /\ rv.runs[r].df[1].Maximum_Benefit > rv.runs[r].df[2].Reserve_BOY

(***************************************************************************)
(* The interest of the previous policy year                                 *)
(***************************************************************************)

\* the policy years completed by the rows produced so far
YearsCompleted == Len(rows) \div 12

\* C29: the prior-year interest used in policy year y is the sum of the twelve
\* monthly interest credits (account value after withdrawal and penalty times
\* the monthly rate) of year y - 1, without any increase caused by the floor; it
\* is 0 throughout year 1, and the running total is reset to 0 after month 12 of
\* every year
C29_PriorYearInterest ==
    /\ prior_year_interest =
           IF YearsCompleted = 0 THEN 0
           ELSE SumInterest((12 * (YearsCompleted - 1)) + 1, 12 * YearsCompleted)
    /\ current_year_interest_accum = SumInterest((12 * YearsCompleted) + 1, Len(rows))
    /\ Len(rows) = 12 * YearsCompleted => current_year_interest_accum = 0
    /\ \A k \in Months :
           /\ rows[k].av_interest_credit =
                  MulRate(rows[k].av_after_withdrawal_and_penalty,
                          monthly_rate_from_annual(rows[k].meta_annual_rate))
           /\ (WithdrawalMonth(rows[k])
               /\ inputs.withdrawal_method = "prior_year_interest_credited") =>
                  rows[k].wd_withdrawal_amount =
                      Min2(Max2(0, SumInterest(k - 12, k - 1)), Max2(0, rows[k].av_bop))
           /\ (Fpw.enabled /\ Fpw.method = "prior_year_interest_credited") =>
                  rows[k].wd_free_limit_ytd =
                      IF rows[k].meta_policy_year = 1 THEN 0
                      ELSE Max2(0, SumInterest(YearStart(k) - 12, YearStart(k) - 1))

C29_Witness ==
    /\ Len(rows) = 14
    /\ \E k \in 1..12 : FloorActive(rows[k]) /\ rows[k].av_interest_credit # 0
    /\ prior_year_interest = SumInterest(1, 12)
    /\ prior_year_interest # 0
    /\ prior_year_interest # rows[12].av_eop - rows[1].av_bop
    /\ current_year_interest_accum = rows[13].av_interest_credit + rows[14].av_interest_credit
    /\ current_year_interest_accum # 0

(***************************************************************************)
(* The MVA factor at and after the end of the term                          *)
(***************************************************************************)

NoMvaInRow(r) ==
    /\ r.mva_factor = 0
    /\ r.wd_mva_factor = 0
    /\ r.wd_mva_amount = 0
    /\ r.csv_mva_factor_used = 0
    /\ r.csv_mva_amt_used = 0

\* the month of the latest MVA call
LatestMonth == IF pc = "error" THEN Len(rows) + 1 ELSE Len(rows)

C30_WitnessRateMissing ==
    /\ catalog.features.mva.enabled
    /\ ~IsNone(inputs.mva_initial_index_rate)
    /\ IsNone(inputs.mva_current_index_rate)
    /\ Len(rows) >= 1
    /\ rows[1].csv_amount_subject_to_mva > 0
    /\ NoMvaInRow(rows[1])

====
